---- MODULE Spec2Model ----
(***************************************************************************)
(* SiteSentinel: the link discovery and risk scoring engine                *)
(* (src/src/checks/external-links.check.js), the safety check              *)
(* (src/src/checks/safety.check.js), the score aggregator                  *)
(* (src/src/utils/score-calculator.util.js) and the POST /analyze route    *)
(* (src/src/routes/analyze.route.js and its safeCheck variant in           *)
(* src/unnamed/part_004), LinkAnalysisCheck (src/unnamed/part_003) and the *)
(* click simulation of SeoCheck.extractAllLinks                            *)
(* (src/src/checks/seo.check.js).                                          *)
(*                                                                         *)
(* A URL string is a record [scheme, host, path, upper]: host is the list  *)
(* of dot-separated labels in lower case, path the list of tokens after    *)
(* the host, upper tells that the string spells its host in upper case.    *)
(* A string is in URL-parsed form when upper = FALSE and, for http/https,  *)
(* its path is not empty.                                                  *)
(***************************************************************************)
EXTENDS Integers, Sequences, FiniteSets, TLC

VARIABLES
  \* one call of scoreExternalLink
  linkUrl,      \* its argument
  probe,        \* what axios.head answers for it
  assessment,   \* the settled promise, None while the call is pending
  \* one POST /api/analyze request
  handler,      \* which route file serves it
  body,         \* req.body
  rpc,          \* "received", "awaiting" (at the await of Promise.all), "responded"
  validatedUrl, \* validateUrl(url), Null before
  tasks,        \* the promise of each category's analyze(), by position
  responses,    \* the responses sent on res, in order
  \* one call of ExternalLinksCheck.analyze
  lpc,          \* where the call stands
  page,         \* the page behind the analysed URL
  net,          \* what the static fetch and the link probes answer
  browser,      \* the puppeteer browser: "none", "open", "closed"
  dynamicLinks, \* extractDynamicLinks: const dynamicLinks
  redirectLinks,\* extractDynamicLinks: const redirectLinks (a Set)
  requestedUrls,\* extractDynamicLinks: const requestedUrls (a Set)
  redirectLog,  \* window.__redirectLog of the page
  observed,     \* number of browser events seen so far
  extracted,    \* what extractDynamicLinks returned to analyze
  result,       \* the settled promise of analyze, None while pending
  closeInvoked, \* browser.close() has been called
  \* one call of calculateCategoryScore
  checksIn,     \* the checks argument
  categoryScore,\* the returned value, None before the call
  \* one call of LinkAnalysisCheck.analyze
  laPc,         \* where the call stands
  laPage,       \* the page behind the analysed URL
  laIndex,      \* position of the for loop over links.slice(0, 20)
  laSuspicious, \* suspiciousLinks.length
  laRedirects,  \* redirectLinks.length
  laDetails,    \* linkDetails
  laResult,     \* the settled promise of analyze, None while pending
  \* one click simulation in a loaded page
  clickImpl,    \* the extractor that runs it
  clickDom,     \* the elements each clickable selector matches, in order
  clicked,      \* the positions el.click() was called on, None before
  \* the scoring of the unique links, lines 188-208 and 257
  uniqueLinks,  \* uniqueExternalLinks
  poolNet,      \* what axios.head answers in this run
  ppc,          \* "map", "awaiting" (at the await of Promise.all), "done"
  started,      \* positions whose scoreExternalLink call has been made
  finished,     \* positions whose promise has settled
  slots,        \* the values Promise.all has gathered so far
  scoredOut     \* allScoredLinks, None before

scoreVars == <<linkUrl, probe, assessment>>
routeVars == <<handler, body, rpc, validatedUrl, tasks, responses>>
linkVars == <<lpc, page, net, browser, dynamicLinks, redirectLinks,
              requestedUrls, redirectLog, observed, extracted, result,
              closeInvoked>>
calcVars == <<checksIn, categoryScore>>
laVars == <<laPc, laPage, laIndex, laSuspicious, laRedirects, laDetails,
            laResult>>
clickVars == <<clickImpl, clickDom, clicked>>
poolVars == <<uniqueLinks, poolNet, ppc, started, finished, slots, scoredOut>>
vars == <<scoreVars, routeVars, linkVars, calcVars, laVars, clickVars,
         poolVars>>

None == [kind |-> "none"]

----------------------------------------------------------------------------
(* URL strings *)

U(s, h, p) == [scheme |-> s, host |-> h, path |-> p, upper |-> FALSE]

Upper(u) == [u EXCEPT !.upper = TRUE]

\* the page under analysis is hosted at example.com
SeedUrl == U("https", <<"example", "com">>, <<"/">>)

NumLabels == {"198", "51", "100", "7"}

\* new URL(s) throws for an http/https string without a host and for a
\* relative reference without a base
Parseable(u) == /\ u.scheme # ""
                /\ (u.scheme \in {"http", "https"} => Len(u.host) > 0)

\* new URL(s).href : lower-cases the host, gives an empty path its "/"
Href(u) ==
  [u EXCEPT !.upper = FALSE,
            !.path = IF u.scheme \in {"http", "https"} /\ u.path = <<>>
                     THEN <<"/">> ELSE u.path]

\* new URL(ref, base).href
Resolve(ref, base) ==
  IF ref.scheme = ""
  THEN Href([scheme |-> base.scheme, host |-> base.host,
             path |-> ref.path, upper |-> FALSE])
  ELSE Href(ref)

\* new URL(s).hostname ("" is the empty label list)
Hostname(u) == u.host

\* s.startsWith('http://') || s.startsWith('https://')
IsHttp(u) == u.scheme \in {"http", "https"}

RECURSIVE JoinDots(_)
JoinDots(labels) ==
  IF Len(labels) = 0 THEN <<>>
  ELSE IF Len(labels) = 1 THEN labels
  ELSE <<Head(labels), ".">> \o JoinDots(Tail(labels))

\* the text of s.toLowerCase(), as a list of tokens
LowerTokens(u) ==
  (IF IsHttp(u) THEN <<u.scheme, "://">> ELSE <<u.scheme, ":">>)
    \o JoinDots(u.host) \o u.path

\* text.includes(pat)
Includes(text, pat) ==
  \E i \in 1..(Len(text) - Len(pat) + 1) :
     SubSeq(text, i, i + Len(pat) - 1) = pat

----------------------------------------------------------------------------
(* ExternalLinksCheck.scoreExternalLink *)

suspiciousTlds ==
  { <<".", t>> : t \in {"click", "loan", "win", "download", "bid",
                        "racing", "top", "stream"} }

redirectServices ==
  { <<"bit", ".", "ly">>, <<"tinyurl">>, <<"goo", ".", "gl">>,
    <<"ow", ".", "ly">>, <<"adf", ".", "ly">>, <<"t", ".", "co">> }

\* /https?:\/\/\d{1,3}\.\d{1,3}\.\d{1,3}\.\d{1,3}/.test(linkUrl)
HasIpLiteral(u) ==
  /\ IsHttp(u)
  /\ Len(u.host) >= 4
  /\ \A i \in 1..4 : u.host[i] \in NumLabels

HasSuspiciousTld(u) == \E t \in suspiciousTlds : Includes(LowerTokens(u), t)
HasShortener(u) == \E s \in redirectServices : Includes(LowerTokens(u), s)
HasManySubdomains(u) == Parseable(u) /\ Len(Hostname(u)) > 4

\* a link that is not a string: linkUrl.toLowerCase() throws a TypeError
NotAString == [scheme |-> "<not a string>", host |-> <<>>, path |-> <<>>,
               upper |-> FALSE]

\* outcomes of axios.head(linkUrl): an HTTP status, or "throw" for a
\* timeout, DNS or connection failure
Answer(n) == [threw |-> FALSE, status |-> n]
Threw == [threw |-> TRUE, status |-> 0]
ProbeOutcomes == {Answer(200), Answer(301), Answer(404), Answer(500),
                  Answer(503), Threw}

Min(a, b) == IF a < b THEN a ELSE b
Max(a, b) == IF a > b THEN a ELSE b

Appended(issues, cond, name) == IF cond THEN Append(issues, name) ELSE issues

Penalty(cond, points) == IF cond THEN points ELSE 0

\* score, issues and status after the URL-pattern rules, lines 294-328,
\* given which of the four patterns matched
PatternRules(tld, short, ip, many) ==
  [score  |-> 100 - Penalty(tld, 30) - Penalty(short, 20) - Penalty(ip, 25)
                  - Penalty(many, 15),
   issues |-> Appended(Appended(Appended(Appended(<<>>,
                 tld, "Suspicious TLD"), short, "URL Shortener"),
                 ip, "Direct IP Address"), many, "Multiple Subdomains"),
   status |-> IF tld \/ short \/ ip THEN "Warning" ELSE "Safe"]

AfterPatterns(u) ==
  PatternRules(HasSuspiciousTld(u), HasShortener(u), HasIpLiteral(u),
               HasManySubdomains(u))

Deduct(a, points, issue, st) ==
  [score |-> a.score - points, issues |-> Append(a.issues, issue),
   status |-> st]

\* the branches on response.status, lines 338-349
StatusRule(a, head) ==
  IF head.status = 404 THEN Deduct(a, 40, "Link Not Found (404)", "Broken")
  ELSE IF head.status >= 500 THEN Deduct(a, 20, "Server Error", "Warning")
  ELSE IF head.status >= 300 /\ head.status < 400
    THEN Deduct(a, 10, "Redirects", a.status)
  ELSE a

\* "Check for HTTPS", lines 351-356: inside the try of the probe
HttpsRule(b, u) ==
  IF u.scheme # "https" THEN Deduct(b, 15, "No HTTPS", "Warning") ELSE b

\* the probe and what follows it in its try block, or its catch, lines 330-362
ProbeRules(a, u, head) ==
  IF head.threw THEN Deduct(a, 30, "Cannot Connect", "Unreachable")
  ELSE HttpsRule(StatusRule(a, head), u)

AfterProbe(u, head) == ProbeRules(AfterPatterns(u), u, head)

\* "Determine final status", lines 364-371: the status set so far is
\* overwritten
FinalStatus(score, statusSoFar) ==
  IF score < 40 THEN "Unsafe"
  ELSE IF score < 70 THEN "Warning"
  ELSE "Safe"

\* mutant: the score is returned without the clamp
UnclampedScore(score) == score

\* Math.max(0, Math.min(100, score))
ClampScore(score) == Max(0, Min(100, score))

\* lines 373-377
Assessed(p) ==
  [score  |-> ClampScore(p.score),
   status |-> FinalStatus(p.score, p.status),
   issues |-> p.issues]

AnalysisError == [score |-> 50, status |-> "Unknown",
                  issues |-> <<"Analysis Error">>]

\* mutant: the outer catch rethrows
ScoreCatchRethrows(err) == [kind |-> "rejected", value |-> AnalysisError]

\* what the outer catch of scoreExternalLink does with an exception
ScoreCatch(err) == [kind |-> "resolved", value |-> AnalysisError]

\* the settled promise of scoreExternalLink(linkUrl)
scoreExternalLink(link, head) ==
  IF link = NotAString
  THEN ScoreCatch("TypeError")
  ELSE [kind |-> "resolved", value |-> Assessed(AfterProbe(link, head))]

----------------------------------------------------------------------------
(* score-calculator.util.js *)

Check(n, st, sev) == [name |-> n, status |-> st, severity |-> sev]

\* every check weighs the same
UniformWeight2(sev) == 2

\* twice the severity weight (critical 3, high 2, medium 1, low 0.5, else 1)
severityWeight2(sev) ==
  CASE sev = "critical" -> 6
    [] sev = "high"     -> 4
    [] sev = "medium"   -> 2
    [] sev = "low"      -> 1
    [] OTHER            -> 2

checkScore(st) ==
  CASE st = "pass" -> 100
    [] st = "warn" -> 60
    [] st = "info" -> 75
    [] OTHER       -> 0

\* the sum of a list of numbers
RECURSIVE Sum(_, _)
Sum(nums, i) == IF i > Len(nums) THEN 0 ELSE nums[i] + Sum(nums, i + 1)

\* the quotient is left out
NoDivision(num, den) == num

\* Math.round(num / den) for num >= 0, den > 0
RoundDiv(num, den) == (2 * num + den) \div (2 * den)

calculateCategoryScore(checks) ==
  IF Len(checks) = 0 THEN 0
  ELSE RoundDiv(
         Sum([i \in 1..Len(checks) |->
                checkScore(checks[i].status) * severityWeight2(checks[i].severity)],
             1),
         Sum([i \in 1..Len(checks) |-> severityWeight2(checks[i].severity)], 1))

\* the mean is truncated
FloorMean(categories) ==
  Sum([i \in 1..Len(categories) |-> categories[i].score], 1) \div Len(categories)

calculateOverallScore(categories) ==
  RoundDiv(Sum([i \in 1..Len(categories) |-> categories[i].score], 1),
           Len(categories))

getScoreLabel(score) ==
  IF score >= 90 THEN "Excellent"
  ELSE IF score >= 75 THEN "Good"
  ELSE IF score >= 60 THEN "Fair"
  ELSE IF score >= 45 THEN "Poor"
  ELSE "Critical"

----------------------------------------------------------------------------
(* SafetyCheck *)

IsNumericRun(tokens, i) ==
  /\ i + 6 <= Len(tokens)
  /\ \A k \in 0..3 : tokens[i + 2 * k] \in NumLabels
  /\ \A k \in 0..2 : tokens[i + 2 * k + 1] = "."

\* the token classes the patterns of detectPhishingIndicators look for
PhishingKeywords == {"verify", "confirm"}
TrackingParams == {"click_id", "cid", "zoneid", "landing_id"}
RedirectPaths == {"redirect", "click", "out", "go"}
\* labels matching /goog+le/, /paypa+l/, /faceb+ook/ (the genuine spelling
\* matches too) and the brands of the allow-list
BrandLike == {"google", "googgle", "paypal", "paypaal", "facebook"}
GenuineBrands == {"google", "facebook", "amazon", "microsoft", "paypal",
                  "twitter", "linkedin", "instagram"}
\* labels holding two or more consecutive digits
DigitRunLabels == {"paypa11", "198", "51", "100"}
LeetTlds == {"click", "download", "stream", "app", "site"}
LongBase64 == "QUJDREVGR0hJSktMTU5PUFFSU1RVVldYWVo..."

detectPhishingIndicators(u) ==
  LET t == LowerTokens(u) IN
  \* 1. obfuscated payload in the path or the query
  \/ \E i \in 1..Len(u.path) : u.path[i] = LongBase64
  \* 2. suspicious URL patterns
  \/ /\ Len(u.host) = 3 /\ u.host[3] \in {"click", "download"}
     /\ Len(u.path) > 0
  \/ \E i \in 2..Len(u.path) :
        u.path[i - 1] \in {"?", "&"} /\ u.path[i] \in TrackingParams
  \/ \E i \in 1..Len(t) : t[i] \in PhishingKeywords
  \/ \E i \in 1..Len(t) : IsNumericRun(t, i)
  \* 3. typosquatting of a brand name in the hostname
  \/ /\ \E i \in 1..Len(u.host) : u.host[i] \in BrandLike
     /\ ~ \E g \in GenuineBrands :
            Includes(JoinDots(u.host), <<g, ".", "com">>)
  \* 4. digits in the label before a cheap TLD
  \/ /\ Len(u.host) >= 2
     /\ u.host[Len(u.host)] \in LeetTlds
     /\ u.host[Len(u.host) - 1] \in DigitRunLabels
  \* 5. redirect paths
  \/ \E i \in 2..(Len(u.path) - 1) :
        /\ u.path[i - 1] = "/" /\ u.path[i] \in RedirectPaths
        /\ u.path[i + 1] = "?"

\* what the page fetch and the Safe Browsing call of one analysis give
\* response.data of the fetched page: a bare page, or one with a form, an
\* iframe and an external script
PlainBody == [hasForm |-> FALSE, iframes |-> FALSE, scripts |-> FALSE]
RichBody == [hasForm |-> TRUE, iframes |-> TRUE, scripts |-> TRUE]

SafetyWorlds ==
  [fetch : {"ok", "throws"},
   gsApiKey : BOOLEAN,
   safeBrowsing : {"match", "clean", "throws"},
   data : {PlainBody, RichBody}]

\* the checks pushed by SafetyCheck.analyze, lines 13-153
SafetyChecks(url, w) ==
  IF w.fetch = "throws"
  THEN << Check("Safety Analysis Error", "error", "critical") >>
  ELSE
    LET gsHit == w.gsApiKey /\ w.safeBrowsing = "match"
        malwareDetected == gsHit \/ detectPhishingIndicators(url)
        https == url.scheme = "https"
    IN << Check("Malware/Phishing Indicators",
                IF malwareDetected THEN "fail" ELSE "info", "critical"),
          Check("SSL Certificate Status",
                IF https THEN "pass" ELSE "fail", "critical"),
          Check("Form Security",
                IF w.data.hasForm /\ ~https THEN "fail" ELSE "pass", "critical"),
          Check("Outdated Software Detection", "info", "medium"),
          Check("SQL Injection Protection", "info", "critical"),
          Check("XSS (Cross-Site Scripting) Protection", "info", "high"),
          Check("Iframe Usage", IF w.data.iframes THEN "warn" ELSE "pass", "medium"),
          Check("External Scripts",
                IF w.data.scripts THEN "warn" ELSE "pass", "high"),
          Check("Rate Limiting / Bot Protection", "info", "medium"),
          Check("Domain Registrar Status", "info", "medium") >>

\* the flag is raised by a failed or errored check of any name
FlagOnAnyCheck(checks) ==
  \E i \in 1..Len(checks) : checks[i].status \in {"fail", "error"}

\* malwareFlag, lines 157-158
MalwareFlag(checks) ==
  \E i \in 1..Len(checks) :
     /\ checks[i].name = "Malware/Phishing Indicators"
     /\ checks[i].status \in {"fail", "error"}

\* the score of the safety category, lines 156-162
SafetyScore(checks) ==
  IF MalwareFlag(checks) THEN 0 ELSE calculateCategoryScore(checks)

CategoryResult(cat, sc, chk, flag) ==
  [category |-> cat, score |-> sc, checks |-> chk, malwareDetected |-> flag]

SafetyAnalyze(url, w) ==
  LET checks == SafetyChecks(url, w) IN
  CategoryResult("Safety & Threats", SafetyScore(checks), checks,
                 MalwareFlag(checks))

----------------------------------------------------------------------------
(* validators.util.js *)

Null == [kind |-> "null"]

EmptyString == U("", <<>>, <<>>)
BlankString == U("", <<>>, <<" ">>)

Trim(str) == IF str = BlankString THEN EmptyString ELSE str

\* labels no domain name may hold, and labels made of hex digits only
BadLabels == {"exa_mple"}
HexLabels == {"cafe"}

isValidDomain(h) ==
  /\ Len(h) >= 2
  /\ \A i \in 1..Len(h) : h[i] \notin BadLabels
  /\ h[Len(h)] \notin NumLabels

validateUrl(urlString) ==
  LET t == Trim(urlString)
      \* no "scheme://" prefix: assume https
      withScheme == IF t.scheme = "" THEN [t EXCEPT !.scheme = "https"] ELSE t
      hostname == Hostname(withScheme)
      isIPv4 == Len(hostname) = 4 /\ \A i \in 1..4 : hostname[i] \in NumLabels
      isIPv6 == Len(hostname) = 1 /\ hostname[1] \in HexLabels
  IN IF t = EmptyString THEN Null
     ELSE IF ~Parseable(withScheme) THEN Null
     ELSE IF withScheme.scheme \notin {"http", "https"} THEN Null
     ELSE IF hostname # <<"localhost">> /\ ~isValidDomain(hostname)
             /\ ~isIPv4 /\ ~isIPv6 THEN Null
     ELSE Href(withScheme)

----------------------------------------------------------------------------
(* POST /api/analyze *)

\* the request bodies: req.body is undefined, or an object whose url is
\* undefined, a number or a string
NoBody == [kind |-> "undefined"]
BodyWith(t, str) == [kind |-> "object", type |-> t, url |-> str]

RequestBodies ==
  { NoBody,
    BodyWith("undefined", EmptyString),
    BodyWith("number", EmptyString),
    BodyWith("string", EmptyString),
    BodyWith("string", BlankString),
    BodyWith("string", U("ftp", <<"example", "com">>, <<"/">>)),
    BodyWith("string", U("https", <<"exa_mple">>, <<"/">>)),
    BodyWith("string", U("https", <<>>, <<>>)),
    BodyWith("string", U("", <<"example", "com">>, <<>>)),
    BodyWith("string", Upper(U("http", <<"example", "com">>, <<"/">>))),
    BodyWith("string", U("http", <<"198", "51", "100", "7">>, <<"/">>)) }

\* the two route files: analyze.route.js awaits the checks directly,
\* its variant wraps each of them in safeCheck
Handlers == {"direct", "safeCheck"}

NumCategories == 6
SafetyIdx == 6
\* the checks whose code is in src/ catch every exception of their own
CatchAll == {1, 4, 5, 6}

fallbackNames ==
  << "Security & HTTPS", "DNS & Domain", "Performance", "SEO & Meta",
     "Accessibility", "Safety & Threats" >>

Pending == [kind |-> "pending"]
Rejected == [kind |-> "rejected"]
Resolved(v) == [kind |-> "resolved", value |-> v]
Undefined == [kind |-> "undefined"]

\* check lists of the categories other than safety: the one of a catch
\* block, a mixed one with a status and a severity outside the tables of
\* calculateCategoryScore, and an empty one
OtherCheckLists ==
  { << Check("Connection Error", "error", "critical") >>,
    << Check("A", "pass", "critical"), Check("B", "warn", "medium"),
       Check("C", "info", "low"), Check("D", "skipped", "none") >>,
    <<>> }

OtherResult(i, checks) ==
  CategoryResult(fallbackNames[i], calculateCategoryScore(checks), checks, FALSE)

\* the settled promise of the analyze() of category i
TaskOutcomes(i, url) ==
  IF i = SafetyIdx
  THEN { Resolved(SafetyAnalyze(url, w)) : w \in SafetyWorlds }
  ELSE { Resolved(OtherResult(i, c)) : c \in OtherCheckLists }
       \cup (IF i \in CatchAll THEN {} ELSE {Rejected, Resolved(Undefined)})

ErrorCategory(name, checkName) ==
  CategoryResult(name, 0, << Check(checkName, "error", "critical") >>, FALSE)

\* safeCheck(checkFn, checkName, fallbackIcon) once checkFn has settled
safeCheck(task, checkName) ==
  IF task.kind = "rejected" THEN ErrorCategory(checkName, "Error")
  ELSE IF task.value = Undefined THEN ErrorCategory(checkName, "Invalid Response")
  ELSE task.value

Response(st, ok, ov, cats) ==
  [status |-> st, success |-> ok, overall |-> ov, categories |-> cats]

BadRequest == Response(400, FALSE, None, <<>>)

\* mutant: the override is left out
OverallWithoutOverride(categories) == calculateOverallScore(categories)

\* "If any category reports a confirmed malware detection, force overall
\* score to 0"
OverallWithOverride(categories) ==
  IF \E i \in 1..Len(categories) : categories[i].malwareDetected
  THEN 0
  ELSE calculateOverallScore(categories)

Success(categories) ==
  LET score == OverallWithOverride(categories) IN
  Response(200, TRUE, [score |-> score, label |-> getScoreLabel(score)],
           categories)

\* the catch block of each handler
CatchResponse(h) ==
  IF h = "direct"
  THEN Response(500, FALSE, None, <<>>)
  ELSE Response(200, TRUE, [score |-> 0, label |-> "Error"],
                << ErrorCategory("Analysis Error", "Error") >>)

\* the response of the safeCheck handler once the six wrapped tasks settled
SafeHandlerResponse(settled) ==
  LET categories == [i \in 1..NumCategories |->
                       safeCheck(settled[i], fallbackNames[i])]
  IN IF Len(categories) = 0
     THEN Response(500, FALSE, None, <<>>)
     ELSE Success(categories)

\* the response of analyze.route.js once Promise.all settled
DirectHandlerResponse(settled) ==
  IF \E i \in 1..NumCategories : settled[i].kind = "rejected"
  THEN CatchResponse("direct")
  ELSE IF \E i \in 1..NumCategories : settled[i].value = Undefined
  THEN CatchResponse("direct")
  ELSE Success([i \in 1..NumCategories |-> settled[i].value])

RouteIdle ==
  /\ handler = "direct"
  /\ body = NoBody
  /\ rpc = "idle"
  /\ validatedUrl = Null
  /\ tasks = <<>>
  /\ responses = <<>>

RouteInit ==
  /\ handler \in Handlers
  /\ body \in RequestBodies
  /\ rpc = "received"
  /\ validatedUrl = Null
  /\ tasks = [i \in 1..NumCategories |-> None]
  /\ responses = <<>>

\* lines 22-52: input validation, then the six analyze() calls are started
Validate ==
  /\ rpc = "received"
  /\ IF body = NoBody
     THEN /\ responses' = Append(responses, CatchResponse(handler))
          /\ rpc' = "responded"
          /\ UNCHANGED <<validatedUrl, tasks>>
     ELSE IF body.type # "string" \/ body.url = EmptyString
     THEN /\ responses' = Append(responses, BadRequest)
          /\ rpc' = "responded"
          /\ UNCHANGED <<validatedUrl, tasks>>
     ELSE IF validateUrl(body.url) = Null
     THEN /\ responses' = Append(responses, BadRequest)
          /\ rpc' = "responded"
          /\ UNCHANGED <<validatedUrl, tasks>>
     ELSE /\ validatedUrl' = validateUrl(body.url)
          /\ tasks' = [i \in 1..NumCategories |-> Pending]
          /\ rpc' = "awaiting"
          /\ UNCHANGED responses
  /\ UNCHANGED <<handler, body, scoreVars, calcVars, clickVars, poolVars, laVars, linkVars>>

\* one category's analyze() settles
TaskSettles ==
  /\ rpc \in {"awaiting", "responded"}
  /\ \E i \in 1..NumCategories :
       /\ tasks[i] = Pending
       /\ \E outcome \in TaskOutcomes(i, validatedUrl) :
            tasks' = [tasks EXCEPT ![i] = outcome]
  /\ UNCHANGED <<handler, body, rpc, validatedUrl, responses>>
  /\ UNCHANGED <<scoreVars, calcVars, clickVars, poolVars, laVars, linkVars>>

\* the await of Promise.all resumes: when every task has settled, or, in
\* analyze.route.js, as soon as one analyze() has rejected
Respond ==
  /\ rpc = "awaiting"
  /\ IF handler = "safeCheck"
     THEN /\ \A i \in 1..NumCategories : tasks[i] # Pending
          /\ responses' = Append(responses, SafeHandlerResponse(tasks))
     ELSE /\ \/ \A i \in 1..NumCategories : tasks[i] # Pending
             \/ \E i \in 1..NumCategories : tasks[i] = Rejected
          /\ responses' = Append(responses, DirectHandlerResponse(tasks))
  /\ rpc' = "responded"
  /\ UNCHANGED <<handler, body, validatedUrl, tasks, scoreVars, calcVars, clickVars, poolVars, laVars, linkVars>>

RouteNext == Validate \/ TaskSettles \/ Respond

----------------------------------------------------------------------------
(* ExternalLinksCheck.analyze: the static extractor *)

Range(seq) == { seq[i] : i \in 1..Len(seq) }

\* set.add(x), the set kept in insertion order
SetAdd(seq, x) == IF x \in Range(seq) THEN seq ELSE Append(seq, x)

Seconds(pairs) == [i \in 1..Len(pairs) |-> pairs[i][2]]

\* [...new Set(seq)] : the first occurrence of each element, in order
Dedupe(seq) ==
  Seconds(SelectSeq([i \in 1..Len(seq) |-> <<i, seq[i]>>],
                    LAMBDA p : \A j \in 1..(p[1] - 1) : seq[j] # p[2]))

Firsts(seqs) == [i \in 1..Len(seqs) |-> seqs[i][1]]

\* the concatenation of lists of at most one element each
Flatten(seqs) == Firsts(SelectSeq(seqs, LAMBDA o : Len(o) > 0))

\* a reference of the markup: the attribute or script it stands in and its text
Ref(k, str) == [src |-> k, ref |-> str]

IsFragment(str) == str.scheme = "" /\ Len(str.path) > 0 /\ str.path[1] = "#"

\* the guard in front of each source's try block
StaticAccepts(r) ==
  CASE r.src = "anchor" ->
         r.ref.scheme \notin {"javascript", "mailto"} /\ ~IsFragment(r.ref)
    [] r.src = "onclick" -> TRUE
    [] r.src = "script" -> IsHttp(r.ref)
    [] r.src = "data" -> TRUE
    [] r.src = "form" -> r.ref.scheme # "javascript" /\ ~IsFragment(r.ref)
    [] r.src = "iframe" -> r.ref.scheme \notin {"javascript", "about"}

\* what one reference of the markup adds to externalLinks
StaticLinks(r, url) ==
  IF r.ref = EmptyString \/ ~StaticAccepts(r) THEN <<>>
  ELSE IF r.ref.scheme # "" /\ ~Parseable(r.ref) THEN <<>>
  ELSE LET absoluteUrl == Resolve(r.ref, url) IN
       IF Hostname(absoluteUrl) # Hostname(url) THEN <<absoluteUrl>> ELSE <<>>

\* lines 41-182
StaticExtract(markup, url) ==
  Flatten([i \in 1..Len(markup) |-> StaticLinks(markup[i], url)])

----------------------------------------------------------------------------
(* ExternalLinksCheck.extractDynamicLinks *)

\* what one element of the live DOM adds to the list page.evaluate returns:
\* el.href, el.action and el.src are absolute, an onclick attribute gives
\* its quoted http(s) literals as written
DomLinks(r, url) ==
  IF r.ref = EmptyString THEN <<>>
  ELSE IF r.src = "onclick"
  THEN IF IsHttp(r.ref) /\ Parseable(r.ref) /\ Hostname(r.ref) # Hostname(url)
       THEN <<r.ref>> ELSE <<>>
  ELSE IF r.ref.scheme # "" /\ ~Parseable(r.ref) THEN <<>>
  ELSE LET href == Resolve(r.ref, url) IN
       IF Hostname(href) # Hostname(url) THEN <<href>> ELSE <<>>

\* page.evaluate, lines 473-535
DomExtract(dom, url) ==
  Flatten([i \in 1..Len(dom) |-> DomLinks(dom[i], url)])

\* page.evaluate, lines 563-577: the anchors only
AnchorExtract(dom, url) ==
  Flatten([i \in 1..Len(dom) |->
             IF dom[i].src = "anchor" THEN DomLinks(dom[i], url) ELSE <<>>])

\* page.on('request')
OnRequestAccepts(requestUrl, url) ==
  /\ Parseable(requestUrl)
  /\ Hostname(requestUrl) # Hostname(url)
  /\ IsHttp(requestUrl)

\* page.on('framenavigated')
OnFrameAccepts(navUrl, url) ==
  /\ Parseable(navUrl)
  /\ Hostname(navUrl) # Hostname(url)
  /\ IsHttp(navUrl)

\* page.on('response'): the Location header of a 3xx answer, resolved
\* against the URL of the response
OnResponseAccepts(status, loc, responseUrl, url) ==
  /\ status >= 300 /\ status < 400
  /\ loc # EmptyString
  /\ (loc.scheme = "" \/ Parseable(loc))
  /\ Hostname(Resolve(loc, responseUrl)) # Hostname(url)

\* log(u) of the instrumented window.open, location.assign/replace,
\* location.href setter, history.pushState/replaceState
LogAccepts(u) == IsHttp(u)

\* what extractDynamicLinks returns, lines 592-595 and 601
DynamicResult(links, redirects) ==
  [links |-> Dedupe(links), redirectLinks |-> redirects]

----------------------------------------------------------------------------
(* ExternalLinksCheck.analyze: merge, score, report *)

\* "limit to first 50 to avoid timeout"
MaxScored == 50

LinkAssessment(link, sc, st, iss) ==
  [url |-> link, score |-> sc, status |-> st, issues |-> iss]

\* score: null
NullScore == -1

NotScored(link) == LinkAssessment(link, NullScore, "Not Scored", <<>>)

\* the probe answer of each link: the same for every link of one run
Nets == ProbeOutcomes
ProbeOf(n, link) == n

\* lines 247: scoredLinks.filter(l => l.score !== null && l.score < 50).length
LowScoreCount(scoredLinks) ==
  Cardinality({ i \in 1..Len(scoredLinks) :
                  scoredLinks[i].score # NullScore /\ scoredLinks[i].score < 50 })

UnsafeLinksCheck(low) ==
  IF low > 0
  THEN << Check("Potentially Unsafe External Links",
                IF low > 3 THEN "fail" ELSE "warn", "high") >>
  ELSE <<>>

\* a page without external links fails the check
DetectedStatusFail(n) == IF n = 0 THEN "fail" ELSE "pass"

\* line 212
DetectedStatus(n) == IF n = 0 THEN "info" ELSE "pass"

LinkChecks(unique, redirects, uniqueDomains, scoredLinks) ==
      << Check("External Links Detected", DetectedStatus(Len(unique)), "low") >>
   \o (IF Len(redirects) > 0
       THEN << Check("Redirect Triggered External Destinations",
                     "warn", "medium") >>
       ELSE <<>>)
   \o << Check("External Domains", "info", "low") >>
   \o UnsafeLinksCheck(LowScoreCount(scoredLinks))

LinksResult(sc, chk, links, domains, scored) ==
  [category |-> "External Links", score |-> sc, checks |-> chk,
   externalLinks |-> links, externalDomains |-> domains,
   scoredLinks |-> scored]

\* the error check is given the highest severity
LinksErrorCritical ==
  LinksResult(0, << Check("External Links Analysis Error", "error", "critical") >>,
              <<>>, <<>>, <<>>)

\* the outer catch of analyze, lines 268-285
LinksError ==
  LinksResult(0, << Check("External Links Analysis Error", "error", "medium") >>,
              <<>>, <<>>, <<>>)

\* mutant: the merged list is returned without removing duplicates
MergedLinks(externalLinks, dyn) ==
  externalLinks \o dyn.links \o dyn.redirectLinks

\* lines 184-186
UniqueExternalLinks(externalLinks, dyn) ==
  Dedupe(externalLinks \o dyn.links \o dyn.redirectLinks)

\* lines 191-199
Assess(link, promise) ==
  LinkAssessment(link, promise.value.score, promise.value.status,
                 promise.value.issues)

\* lines 189-200: the first MaxScored links, each with its assessment
ScoredLinks(unique, n) ==
  [i \in 1..Min(Len(unique), MaxScored) |->
     Assess(unique[i], scoreExternalLink(unique[i], ProbeOf(n, unique[i])))]

\* mutant: the links beyond the cap are dropped
NoRemainingLinks(unique) == <<>>

\* lines 203-208
RemainingLinks(unique) ==
  [i \in 1..(Len(unique) - Min(Len(unique), MaxScored)) |->
     NotScored(unique[MaxScored + i])]

\* lines 228-237
UniqueDomains(unique) ==
  Dedupe(Flatten([i \in 1..Len(unique) |->
                    IF Parseable(unique[i]) /\ Hostname(unique[i]) # <<>>
                    THEN << Hostname(unique[i]) >> ELSE <<>>]))

\* lines 210-267, given the unique links and their assessments
Report(unique, redirects, uniqueDomains, scoredLinks) ==
  LinksResult(
    calculateCategoryScore(
      LinkChecks(unique, redirects, uniqueDomains, scoredLinks)),
    LinkChecks(unique, redirects, uniqueDomains, scoredLinks),
    unique, uniqueDomains, scoredLinks \o RemainingLinks(unique))

ReportOn(unique, dyn, n) ==
  Report(unique, dyn.redirectLinks, UniqueDomains(unique),
         ScoredLinks(unique, n))

\* the value analyze returns when the static fetch answered, lines 40-267
LinksSuccess(pg, dyn, n) ==
  ReportOn(UniqueExternalLinks(StaticExtract(pg.markup, pg.url), dyn), dyn, n)

----------------------------------------------------------------------------
(* The pages and the browser events of the link engine *)

BigPageLinks == 52
MaxEvents == 2

Good == U("https", <<"good", "com">>, <<"/">>)
CdnLib == U("https", <<"cdn", "net">>, <<"/", "lib">>)
About == U("", <<>>, <<"/", "about">>)
OwnPage == U("https", <<"example", "com">>, <<"/", "p2">>)

Page(u, m, d, r) == [url |-> u, markup |-> m, dom |-> d, revealed |-> r]

EmptyPage == Page(SeedUrl, <<>>, << Ref("anchor", About) >>, <<>>)

SmallPage ==
  Page(SeedUrl,
       << Ref("anchor", Good),
          Ref("anchor", About),
          Ref("anchor", U("mailto", <<>>, <<"me">>)),
          Ref("anchor", U("", <<>>, <<"#", "top">>)),
          Ref("anchor", U("tel", <<>>, <<"123">>)),
          Ref("anchor", U("http", <<>>, <<>>)),
          Ref("onclick", U("http", <<"evil", "click">>, <<"/", "x">>)),
          Ref("script", Upper(CdnLib)),
          Ref("script", OwnPage),
          Ref("data", U("https", <<"bit", "ly">>, <<"/", "a">>)),
          Ref("form", U("javascript", <<>>, <<"void">>)),
          Ref("iframe", U("about", <<>>, <<"blank">>)),
          Ref("anchor", Good) >>,
       << Ref("anchor", Good),
          Ref("anchor", About),
          Ref("onclick", Upper(CdnLib)),
          Ref("form", U("https", <<"pay", "net">>, <<"/", "post">>)) >>,
       << Ref("anchor", U("https", <<"late", "org">>, <<"/">>)) >>)

BigPage ==
  Page(SeedUrl,
       [i \in 1..BigPageLinks |->
          Ref("anchor", U("https", <<"cdn", "net">>, <<"/", ToString(i)>>))],
       << Ref("anchor", Good) >>,
       <<>>)

\* links that between them match every URL-pattern rule of scoreExternalLink
RiskyLinks ==
  << U("https", <<"good", "com">>, <<"/">>),
     U("http",  <<"good", "com">>, <<"/">>),
     U("https", <<"evil", "click">>, <<"/", "x">>),
     U("http",  <<"evil", "click">>, <<"/", "x">>),
     U("https", <<"bit", "ly">>, <<"/", "a">>),
     U("http",  <<"198", "51", "100", "7">>, <<"/", "login">>),
     U("https", <<"198", "51", "100", "7">>, <<"/", "login">>),
     U("https", <<"a", "b", "c", "d", "good", "com">>, <<"/">>),
     U("https", <<"good", "com">>, <<"/", "file", ".", "click">>),
     U("http",  <<"198", "51", "100", "7", "bit", "ly", "click">>, <<"/", "x">>),
     Upper(U("https", <<"cdn", "net">>, <<"/", "lib">>)) >>

RiskyPage ==
  Page(SeedUrl,
       [i \in 1..Len(RiskyLinks) |-> Ref("anchor", RiskyLinks[i])],
       << Ref("onclick", Upper(CdnLib)) >>,
       <<>>)

\* a seed that new URL() does not parse
BadSeedPage == Page(U("http", <<>>, <<>>), << Ref("anchor", Good) >>, <<>>, <<>>)

Pages == {EmptyPage, SmallPage, BigPage, RiskyPage, BadSeedPage}

\* URLs the page requests, navigates or redirects to while the browser runs
EventUrls ==
  { U("https", <<"ads", "net">>, <<"/", "t">>),
    OwnPage,
    U("ftp", <<"files", "org">>, <<"/">>) }

NoDynamic == [links |-> <<>>, redirectLinks |-> <<>>]

LinksInit ==
  /\ lpc = "start"
  /\ page \in Pages
  /\ net = None
  /\ browser = "none"
  /\ dynamicLinks = <<>>
  /\ redirectLinks = <<>>
  /\ requestedUrls = <<>>
  /\ redirectLog = <<>>
  /\ observed = 0
  /\ extracted = None
  /\ result = None
  /\ closeInvoked = FALSE

\* line 13, in front of the try block: new URL(url).hostname
ParseSeed ==
  /\ lpc = "start"
  /\ IF Parseable(page.url)
     THEN lpc' = "launch" /\ UNCHANGED result
     ELSE lpc' = "done" /\ result' = Rejected
  /\ UNCHANGED <<closeInvoked, page, net, browser, dynamicLinks, redirectLinks,
                 requestedUrls, redirectLog, observed, extracted, scoreVars, calcVars, clickVars, poolVars, laVars,
                 routeVars>>

\* lines 20-23 and 392-398: require('puppeteer'), puppeteer.launch
Launch ==
  /\ lpc = "launch"
  /\ \E outcome \in {"not installed", "launch throws", "ok"} :
       IF outcome = "ok"
       THEN /\ browser' = "open"
            /\ lpc' = "navigating"
            /\ UNCHANGED extracted
       ELSE /\ extracted' = NoDynamic
            /\ lpc' = "static"
            /\ UNCHANGED browser
  /\ UNCHANGED <<closeInvoked, page, net, dynamicLinks, redirectLinks, requestedUrls,
                 redirectLog, observed, result, scoreVars, calcVars, clickVars, poolVars, laVars, routeVars>>

PageActive == lpc \in {"navigating", "settling"} /\ observed < MaxEvents

OnRequest ==
  /\ PageActive
  /\ \E u \in EventUrls :
       requestedUrls' = IF OnRequestAccepts(u, page.url)
                        THEN SetAdd(requestedUrls, u) ELSE requestedUrls
  /\ observed' = observed + 1
  /\ UNCHANGED <<closeInvoked, lpc, page, net, browser, dynamicLinks, redirectLinks,
                 redirectLog, extracted, result, scoreVars, calcVars, clickVars, poolVars, laVars, routeVars>>

OnFrameNavigated ==
  /\ PageActive
  /\ \E u \in EventUrls :
       redirectLinks' = IF OnFrameAccepts(u, page.url)
                        THEN SetAdd(redirectLinks, u) ELSE redirectLinks
  /\ observed' = observed + 1
  /\ UNCHANGED <<closeInvoked, lpc, page, net, browser, dynamicLinks, requestedUrls,
                 redirectLog, extracted, result, scoreVars, calcVars, clickVars, poolVars, laVars, routeVars>>

OnResponse ==
  /\ PageActive
  /\ \E status \in {200, 302}, loc \in EventUrls \cup {About},
        responseUrl \in {page.url, Good} :
       redirectLinks' =
         IF OnResponseAccepts(status, loc, responseUrl, page.url)
         THEN SetAdd(redirectLinks, Resolve(loc, responseUrl))
         ELSE redirectLinks
  /\ observed' = observed + 1
  /\ UNCHANGED <<closeInvoked, lpc, page, net, browser, dynamicLinks, requestedUrls,
                 redirectLog, extracted, result, scoreVars, calcVars, clickVars, poolVars, laVars, routeVars>>

\* a script of the page calls window.open, location.assign/replace,
\* sets location.href or calls history.pushState/replaceState
ApiNavigation ==
  /\ PageActive
  /\ \E u \in EventUrls \cup {About} :
       redirectLog' = IF LogAccepts(u) THEN Append(redirectLog, u)
                      ELSE redirectLog
  /\ observed' = observed + 1
  /\ UNCHANGED <<closeInvoked, lpc, page, net, browser, dynamicLinks, redirectLinks,
                 requestedUrls, extracted, result, scoreVars, calcVars, clickVars, poolVars, laVars, routeVars>>

\* page.goto resolves
GotoDone ==
  /\ lpc = "navigating"
  /\ lpc' = "loaded"
  /\ UNCHANGED <<closeInvoked, page, net, browser, dynamicLinks, redirectLinks,
                 requestedUrls, redirectLog, observed, extracted, result,
                 scoreVars, calcVars, clickVars, poolVars, laVars, routeVars>>

\* lines 473-537
ExtractDom ==
  /\ lpc = "loaded"
  /\ dynamicLinks' = dynamicLinks \o DomExtract(page.dom, page.url)
  /\ lpc' = "extracted"
  /\ UNCHANGED <<closeInvoked, page, net, browser, redirectLinks, requestedUrls,
                 redirectLog, observed, extracted, result, scoreVars, calcVars, clickVars, poolVars, laVars,
                 routeVars>>

\* lines 540-560: the clicks, then the wait
ClickAll ==
  /\ lpc = "extracted"
  /\ lpc' = "settling"
  /\ UNCHANGED <<closeInvoked, page, net, browser, dynamicLinks, redirectLinks,
                 requestedUrls, redirectLog, observed, extracted, result,
                 scoreVars, calcVars, clickVars, poolVars, laVars, routeVars>>

\* lines 563-579
ExtractAfterClick ==
  /\ lpc = "settling"
  /\ dynamicLinks' =
       dynamicLinks \o AnchorExtract(page.dom \o page.revealed, page.url)
  /\ lpc' = "collecting"
  /\ UNCHANGED <<closeInvoked, page, net, browser, redirectLinks, requestedUrls,
                 redirectLog, observed, extracted, result, scoreVars, calcVars, clickVars, poolVars, laVars,
                 routeVars>>

\* lines 581-588: the redirect log (its evaluate may throw, which is
\* swallowed), then the requested URLs
Collect ==
  /\ lpc = "collecting"
  /\ \E logRead \in BOOLEAN :
       redirectLinks' = IF logRead THEN Dedupe(redirectLinks \o redirectLog)
                        ELSE redirectLinks
  /\ dynamicLinks' = dynamicLinks \o requestedUrls
  /\ lpc' = "closing"
  /\ UNCHANGED <<closeInvoked, page, net, browser, requestedUrls, redirectLog, observed,
                 extracted, result, scoreVars, calcVars, clickVars, poolVars, laVars, routeVars>>

\* lines 590-595
CloseAndReturn ==
  /\ lpc = "closing"
  /\ browser' = "closed"
  /\ closeInvoked' = TRUE
  /\ extracted' = DynamicResult(dynamicLinks, redirectLinks)
  /\ lpc' = "static"
  /\ UNCHANGED <<page, net, dynamicLinks, redirectLinks, requestedUrls,
                 redirectLog, observed, result, scoreVars, calcVars, clickVars, poolVars, laVars,
                 routeVars>>

\* the browser.close() of the catch block is skipped
CatchNeverCloses(b) == FALSE

\* line 597: if (browser)
CatchCloses(b) == b # "none"

\* an awaited browser call throws (newPage, goto timeout, evaluate,
\* waitForTimeout, close): the catch block, lines 596-602; when its own
\* browser.close() throws too, the inner catch of analyze, lines 29-32
StepThrows ==
  /\ lpc \in {"navigating", "loaded", "extracted", "settling", "closing"}
  /\ IF CatchCloses(browser)
     THEN /\ closeInvoked' = TRUE
          /\ \E closes \in BOOLEAN :
               IF closes
               THEN /\ browser' = "closed"
                    /\ extracted' = DynamicResult(dynamicLinks, redirectLinks)
               ELSE /\ extracted' = NoDynamic
                    /\ UNCHANGED browser
     ELSE /\ extracted' = DynamicResult(dynamicLinks, redirectLinks)
          /\ closeInvoked' = (closeInvoked \/ lpc = "closing")
          /\ UNCHANGED browser
  /\ lpc' = "static"
  /\ UNCHANGED <<page, net, dynamicLinks, redirectLinks, requestedUrls,
                 redirectLog, observed, result, scoreVars, calcVars, clickVars, poolVars, laVars,
                 routeVars>>

\* lines 34-285: the static fetch and everything after it
FetchAndScore ==
  /\ lpc = "static"
  /\ \E fetch \in {"ok", "throws"}, n \in Nets :
       /\ net' = [fetch |-> fetch, probe |-> n]
       /\ result' = IF fetch = "ok"
                    THEN Resolved(LinksSuccess(page, extracted, n))
                    ELSE Resolved(LinksError)
  /\ lpc' = "done"
  /\ UNCHANGED <<closeInvoked, page, browser, dynamicLinks, redirectLinks, requestedUrls,
                 redirectLog, observed, extracted, scoreVars, calcVars, clickVars, poolVars, laVars, routeVars>>

LinksNext ==
  \/ ParseSeed \/ Launch \/ OnRequest \/ OnFrameNavigated \/ OnResponse \/ ApiNavigation
  \/ GotoDone \/ ExtractDom \/ ClickAll \/ ExtractAfterClick \/ Collect
  \/ CloseAndReturn \/ StepThrows \/ FetchAndScore

----------------------------------------------------------------------------
(* One call of calculateCategoryScore *)

MaxChecks == 2

\* status and severity values, one of each outside the tables of the code
CalcStatuses == {"pass", "warn", "info", "fail", "error", "skipped"}
CalcSeverities == {"critical", "high", "medium", "low", "none"}

CalcChecks == { Check("c", st, sev) : st \in CalcStatuses, sev \in CalcSeverities }

CheckLists == UNION { [1..n -> CalcChecks] : n \in 0..MaxChecks }

Number(n) == [kind |-> "number", value |-> n]

CalcIdle ==
  /\ checksIn = <<>>
  /\ categoryScore = None

CalcInit ==
  /\ checksIn \in CheckLists
  /\ categoryScore = None

Calculate ==
  /\ categoryScore = None
  /\ categoryScore' = Number(calculateCategoryScore(checksIn))
  /\ UNCHANGED <<checksIn, scoreVars, routeVars, linkVars, laVars,
                 clickVars, poolVars>>

----------------------------------------------------------------------------
(* LinkAnalysisCheck *)

\* "Check first 20 links only"
MaxAnalysed == 20

HasToken(u, tokens) == \E i \in 1..Len(LowerTokens(u)) : LowerTokens(u)[i] \in tokens

HasAnyRun(u, runs) == \E r \in runs : Includes(LowerTokens(u), r)

\* /\.click($|\/)/ and /\.download($|\/)/
HasClickSuffix(t) ==
  \E i \in 2..Len(t) :
     /\ t[i - 1] = "." /\ t[i] \in {"click", "download"}
     /\ (i = Len(t) \/ t[i + 1] = "/")

\* a then, anywhere later, b: /a.*b/
HasInOrder(t, a, b) == \E i, j \in 1..Len(t) : i < j /\ t[i] = a /\ t[j] = b

\* isSuspiciousDomain: the patterns, at the granularity of tokens
isSuspiciousDomain(u) ==
  \/ HasClickSuffix(LowerTokens(u))
  \/ HasAnyRun(u, { <<"bit", ".", "ly">>, <<"adf", ".", "ly">>,
                    <<"short", ".", "link">>, <<"goo", ".", "gl">>,
                    <<"ow", ".", "ly">>, <<"whitebit", ".", "com">> })
  \/ HasToken(u, {"tinyurl", "clickbank", "tracking", "bitget", "bybit"})
  \/ \E p \in { <<"analytics", "redirect">>, <<"binance", "redirect">>,
               <<"kraken", "redirect">>, <<"crypto", "casino">>,
               <<"gambling", "app">>, <<"sports", "betting">> } :
        HasInOrder(LowerTokens(u), p[1], p[2])

\* isRedirectLink: suspiciousRedirectDomains.some(d => urlLower.includes(d))
isRedirectLink(u) ==
  \/ HasAnyRun(u, { <<"bit", ".", "ly">>, <<"short", ".", "link">>,
                    <<"goo", ".", "gl">>, <<"ow", ".", "ly">>,
                    <<"adf", ".", "ly">>, <<"click", "/">>, <<".", "click">>,
                    <<"out", ".">>, <<"/", "go", "?">> })
  \/ HasToken(u, {"tinyurl", "clickbank", "amazon-click", "redirect",
                  "tracking", "analytics-redirect"})

\* what axios.head(link) gives: a rejection, or the location header
HeadAnswer(t, loc) == [threw |-> t, location |-> loc]

LaHeads ==
  { HeadAnswer(TRUE, EmptyString), HeadAnswer(FALSE, EmptyString),
    HeadAnswer(FALSE, U("https", <<"good", "com">>, <<"/">>)),
    HeadAnswer(FALSE, U("https", <<"bit", ".", "ly">>, <<"/", "z">>)) }

Analysis(link, sc, st, red, sus) ==
  [url |-> link, score |-> sc, status |-> st, isRedirect |-> red,
   isSuspicious |-> sus]

\* lines 246-283, for a link that is not suspicious itself
AfterRedirectProbe(link, red, head) ==
  IF ~red THEN Analysis(link, 100, "safe", red, FALSE)
  ELSE IF head.threw THEN Analysis(link, 60, "warning", red, FALSE)
  ELSE IF head.location = EmptyString THEN Analysis(link, 100, "safe", red, FALSE)
  ELSE IF isSuspiciousDomain(head.location)
    THEN Analysis(link, 10, "suspicious", red, TRUE)
  ELSE Analysis(link, 70, "warning", red, FALSE)

analyzeExternalLink(link, head) ==
  IF isSuspiciousDomain(link)
  THEN Analysis(link, 20, "suspicious", isRedirectLink(link), TRUE)
  ELSE AfterRedirectProbe(link, isRedirectLink(link), head)

\* a page as LinkAnalysisCheck reads it: the url of its meta refresh, the
\* urls its inline scripts assign to window.location, the hrefs of its
\* anchors, and the number of its p and div elements
LaPageOf(u, m, sc, a, b) ==
  [url |-> u, meta |-> m, scripts |-> sc, anchors |-> a, blocks |-> b]

\* lines 75-86
LaLinkOf(href, url) ==
  IF href = EmptyString \/ href.scheme \in {"javascript", "mailto"} THEN <<>>
  ELSE IF href.scheme # "" /\ ~Parseable(href) THEN <<>>
  ELSE << Resolve(href, url) >>

LaLinks(pg) ==
  Flatten([i \in 1..Len(pg.anchors) |-> LaLinkOf(pg.anchors[i], pg.url)])

\* lines 36-72: the meta refresh and the script redirects that are suspicious
LaRedirectCount(pg) ==
  (IF pg.meta # EmptyString /\ isSuspiciousDomain(pg.meta) THEN 1 ELSE 0)
  + Cardinality({ i \in 1..Len(pg.scripts) : isSuspiciousDomain(pg.scripts[i]) })

\* lines 120-155
LaChecks(links, redirects, suspicious, blocks) ==
  << Check("External Links Found", IF links = 0 THEN "info" ELSE "pass", "low"),
     Check("Redirect Links",
           IF redirects > 5 THEN "warn"
           ELSE IF redirects > 0 THEN "info" ELSE "pass", "medium"),
     Check("Suspicious External Redirects",
           IF suspicious > 3 THEN "fail"
           ELSE IF suspicious > 0 THEN "warn" ELSE "pass", "critical"),
     Check("External Link Density",
           IF 2 * links > blocks + 1 THEN "warn" ELSE "pass", "medium") >>

LaResultOf(sc, chk, details, flag) ==
  [category |-> "Link Analysis", score |-> sc, checks |-> chk,
   linkDetails |-> details, suspiciousRedirectsDetected |-> flag,
   malwareDetected |-> FALSE]

\* lines 157-164
LaReport(chk, details, suspicious) ==
  LaResultOf(calculateCategoryScore(chk), chk, details, suspicious > 0)

\* lines 165-179
LaError ==
  LaResultOf(0, << Check("Link Analysis Error", "error", "medium") >>, <<>>,
             FALSE)

LaLongLinks == 21

LaClean ==
  LaPageOf(SeedUrl, EmptyString, <<>>,
           << U("https", <<"good", "com">>, <<"/">>),
              U("", <<>>, <<"/", "about">>),
              U("mailto", <<>>, <<"me">>) >>, 5)

LaShort ==
  LaPageOf(SeedUrl, EmptyString, <<>>,
           << U("https", <<"bit", "ly">>, <<"/", "a">>),
              U("https", <<"good", "com">>, <<"/">>) >>, 0)

LaMany ==
  LaPageOf(SeedUrl, U("https", <<"evil", "click">>, <<"/">>),
           << U("http", <<"tinyurl", "com">>, <<"/", "q">>),
              U("https", <<"good", "com">>, <<"/">>) >>,
           << U("https", <<"evil", "click">>, <<"/", "x">>),
              U("https", <<"adf", "ly">>, <<"/", "b">>),
              U("https", <<"example", "com">>, <<"/", "tracking">>) >>, 9)

LaRedirecting ==
  LaPageOf(SeedUrl, EmptyString, <<>>,
           << U("https", <<"good", "com">>, <<"/", "redirect", "?", "u">>),
              U("https", <<"out", "good", "com">>, <<"/">>),
              U("https", <<"shop", "net">>, <<"/", "go", "?", "id">>) >>, 2)

LaLong ==
  LaPageOf(SeedUrl, EmptyString, <<>>,
           [i \in 1..LaLongLinks |->
              IF i < LaLongLinks
              THEN U("https", <<"cdn", "net">>, <<"/", ToString(i)>>)
              ELSE U("https", <<"bit", "ly">>, <<"/", "late">>)], 40)

LaBadSeed == LaPageOf(U("http", <<>>, <<>>), EmptyString, <<>>, <<>>, 0)

LaPages == {LaClean, LaShort, LaMany, LaRedirecting, LaLong, LaBadSeed}

LaIdle ==
  /\ laPc = "idle"
  /\ laPage = None
  /\ laIndex = 0
  /\ laSuspicious = 0
  /\ laRedirects = 0
  /\ laDetails = <<>>
  /\ laResult = None

LaInit ==
  /\ laPc = "start"
  /\ laPage \in LaPages
  /\ laIndex = 0
  /\ laSuspicious = 0
  /\ laRedirects = 0
  /\ laDetails = <<>>
  /\ laResult = None

\* lines 22-72: the hostname of the url, the fetch, the meta refresh and the
\* script redirects
LaFetch ==
  /\ laPc = "start"
  /\ IF ~Parseable(laPage.url)
     THEN /\ laResult' = Rejected
          /\ laPc' = "done"
          /\ UNCHANGED <<laIndex, laSuspicious>>
     ELSE \E fetch \in {"ok", "throws"} :
            IF fetch = "ok"
            THEN /\ laSuspicious' = LaRedirectCount(laPage)
                 /\ laIndex' = 1
                 /\ laPc' = "links"
                 /\ UNCHANGED laResult
            ELSE /\ laResult' = Resolved(LaError)
                 /\ laPc' = "done"
                 /\ UNCHANGED <<laIndex, laSuspicious>>
  /\ UNCHANGED <<laPage, laRedirects, laDetails, scoreVars, routeVars,
                 linkVars, calcVars, clickVars, poolVars>>

LaLoopRuns == laPc = "links" /\ laIndex <= Min(Len(LaLinks(laPage)), MaxAnalysed)

\* the analysis of one external link, lines 99-113
LaTrack(a) ==
  /\ laDetails' = Append(laDetails, a)
  /\ laRedirects' = laRedirects + (IF a.isRedirect THEN 1 ELSE 0)
  /\ laSuspicious' = laSuspicious + (IF a.isSuspicious THEN 1 ELSE 0)

\* one round of the for loop, lines 92-118
LaAnalyzeLink ==
  /\ LaLoopRuns
  /\ IF Hostname(LaLinks(laPage)[laIndex]) # Hostname(laPage.url)
     THEN \E head \in LaHeads :
            LaTrack(analyzeExternalLink(LaLinks(laPage)[laIndex], head))
     ELSE UNCHANGED <<laDetails, laRedirects, laSuspicious>>
  /\ laIndex' = laIndex + 1
  /\ UNCHANGED <<laPc, laPage, laResult, scoreVars, routeVars, linkVars,
                 calcVars, clickVars, poolVars>>

\* lines 120-164
LaReturn ==
  /\ laPc = "links"
  /\ ~LaLoopRuns
  /\ laResult' =
       Resolved(LaReport(LaChecks(Len(LaLinks(laPage)), laRedirects,
                                  laSuspicious, laPage.blocks),
                         laDetails, laSuspicious))
  /\ laPc' = "done"
  /\ UNCHANGED <<laPage, laIndex, laSuspicious, laRedirects, laDetails,
                 scoreVars, routeVars, linkVars, calcVars, clickVars, poolVars>>

LaNext == LaFetch \/ LaAnalyzeLink \/ LaReturn

----------------------------------------------------------------------------
(* The click simulation of the two browser extractors *)

\* "Only click first 50 of each type"
ClickCap == 50

MaxClickables == 51

\* selectors both extractors enumerate
ClickSelectors == {"button", "a", "[onclick]"}

\* an element, with what its computed style says: display is not none,
\* visibility not hidden, opacity not 0
Element(v) == [visible |-> v]

ElementList(n, shown) ==
  [i \in 1..n |-> Element(CASE shown = "all" -> TRUE
                            [] shown = "none" -> FALSE
                            [] shown = "odd" -> i % 2 = 1)]

ClickLists ==
  { ElementList(n, shown) : n \in {0, 2, MaxClickables},
                            shown \in {"all", "none", "odd"} }

\* external-links.check.js, lines 547-556: forEach((el, index) => ...)
\* calls el.click() when index < 50
ClickFirst(elements) == { i \in 1..Len(elements) : i - 1 < ClickCap }

\* seo.check.js, lines 68-82: every element of page.$$(selector) is
\* clicked when isVisible
ClickVisible(elements) == { i \in 1..Len(elements) : elements[i].visible }

ClickIdle ==
  /\ clickImpl = "none"
  /\ clickDom = None
  /\ clicked = None

ClickInit ==
  /\ clickImpl \in {"extractDynamicLinks", "extractAllLinks"}
  /\ clickDom \in [ClickSelectors -> ClickLists]
  /\ clicked = None

\* extractDynamicLinks, lines 539-557
ClickDynamic ==
  /\ clickImpl = "extractDynamicLinks"
  /\ clicked = None
  /\ clicked' = [s \in ClickSelectors |-> ClickFirst(clickDom[s])]
  /\ UNCHANGED <<clickImpl, clickDom, scoreVars, routeVars, linkVars,
                 calcVars, laVars, poolVars>>

\* extractAllLinks, lines 52-107
ClickSeo ==
  /\ clickImpl = "extractAllLinks"
  /\ clicked = None
  /\ clicked' = [s \in ClickSelectors |-> ClickVisible(clickDom[s])]
  /\ UNCHANGED <<clickImpl, clickDom, scoreVars, routeVars, linkVars,
                 calcVars, laVars, poolVars>>

ClickNext == ClickDynamic \/ ClickSeo

----------------------------------------------------------------------------
(* The concurrent scoring of the unique links *)

PoolShortLinks == 3

UniquePools ==
  { <<>>,
    SubSeq(RiskyLinks, 1, PoolShortLinks),
    [i \in 1..BigPageLinks |-> U("https", <<"cdn", "net">>, <<"/", ToString(i)>>)] }

\* uniqueExternalLinks.slice(0, 50)
LinksToScore(unique) == SubSeq(unique, 1, Min(Len(unique), MaxScored))

ProbesPending == started \ finished

\* the values are gathered in the order the promises settle
PutByArrival(arr, i, v) == [arr EXCEPT ![Cardinality(finished) + 1] = v]

\* Promise.all: the value of a promise takes the position of that promise
PutByIndex(arr, i, v) == [arr EXCEPT ![i] = v]

PoolIdle ==
  /\ uniqueLinks = <<>>
  /\ poolNet = Threw
  /\ ppc = "idle"
  /\ started = {}
  /\ finished = {}
  /\ slots = <<>>
  /\ scoredOut = None

PoolInit ==
  /\ uniqueLinks \in UniquePools
  /\ poolNet \in {Answer(200), Answer(404), Threw}
  /\ ppc = "map"
  /\ started = {}
  /\ finished = {}
  /\ slots = <<>>
  /\ scoredOut = None

\* lines 189-199: linksToScore.map(async link => ...) calls the callback on
\* every link in turn; each call runs up to its first await, which is
\* reached after scoreExternalLink has issued axios.head
MapStartsProbes ==
  /\ ppc = "map"
  /\ started' = 1..Len(LinksToScore(uniqueLinks))
  /\ slots' = [i \in 1..Len(LinksToScore(uniqueLinks)) |-> None]
  /\ ppc' = "awaiting"
  /\ UNCHANGED <<uniqueLinks, poolNet, finished, scoredOut, scoreVars,
                 routeVars, linkVars, calcVars, laVars, clickVars>>

\* the probe of one link answers and the callback of that link returns,
\* lines 192-198; in a list longer than PoolShortLinks the probes settle
\* from either end of those pending
ProbeSettles ==
  /\ ppc = "awaiting"
  /\ \E i \in ProbesPending :
       /\ \/ Len(uniqueLinks) <= PoolShortLinks
          \/ \A j \in ProbesPending : j >= i
          \/ \A j \in ProbesPending : j <= i
       /\ slots' = PutByIndex(slots, i,
                     Assess(uniqueLinks[i],
                            scoreExternalLink(uniqueLinks[i], poolNet)))
       /\ finished' = finished \cup {i}
  /\ UNCHANGED <<uniqueLinks, poolNet, ppc, started, scoredOut, scoreVars,
                 routeVars, linkVars, calcVars, laVars, clickVars>>

\* Promise.all resolves once every promise has; lines 203-208 and 257
AllSettled ==
  /\ ppc = "awaiting"
  /\ ProbesPending = {}
  /\ scoredOut' = slots \o RemainingLinks(uniqueLinks)
  /\ ppc' = "done"
  /\ UNCHANGED <<uniqueLinks, poolNet, started, finished, slots, scoreVars,
                 routeVars, linkVars, calcVars, laVars, clickVars>>

PoolNext == MapStartsProbes \/ ProbeSettles \/ AllSettled

----------------------------------------------------------------------------
(* One call of scoreExternalLink on every link of ScorePool *)

ScorePool == Range(RiskyLinks) \cup { U("http", <<>>, <<>>) }

ScoreIdle ==
  /\ linkUrl = NotAString
  /\ probe = Threw
  /\ assessment = None

ScoreInit ==
  /\ linkUrl \in ScorePool \cup {NotAString}
  /\ probe \in ProbeOutcomes
  /\ assessment = None

ScoreLink ==
  /\ assessment = None
  /\ assessment' = scoreExternalLink(linkUrl, probe)
  /\ UNCHANGED <<linkUrl, probe, routeVars, linkVars, calcVars, clickVars, poolVars, laVars>>

LinksIdle ==
  /\ lpc = "idle"
  /\ page = None
  /\ net = None
  /\ browser = "none"
  /\ dynamicLinks = <<>>
  /\ redirectLinks = <<>>
  /\ requestedUrls = <<>>
  /\ redirectLog = <<>>
  /\ observed = 0
  /\ extracted = None
  /\ result = None
  /\ closeInvoked = FALSE

\* a request served by either route file
Init == RouteInit /\ ScoreIdle /\ LinksIdle /\ CalcIdle /\ LaIdle
  /\ ClickIdle /\ PoolIdle
Next == RouteNext
Spec == Init /\ [][Next]_vars

\* one call of ExternalLinksCheck.analyze
InitLinks == LinksInit /\ RouteIdle /\ ScoreIdle /\ CalcIdle /\ LaIdle
  /\ ClickIdle /\ PoolIdle
SpecLinks == InitLinks /\ [][LinksNext]_vars

\* one call of scoreExternalLink
InitScore == ScoreInit /\ RouteIdle /\ LinksIdle /\ CalcIdle /\ LaIdle
  /\ ClickIdle /\ PoolIdle
SpecScore == InitScore /\ [][ScoreLink]_vars

\* one call of calculateCategoryScore
InitCalc == CalcInit /\ RouteIdle /\ LinksIdle /\ ScoreIdle /\ LaIdle
  /\ ClickIdle /\ PoolIdle
SpecCalc == InitCalc /\ [][Calculate]_vars

\* one call of LinkAnalysisCheck.analyze
InitLinkAnalysis == LaInit /\ RouteIdle /\ LinksIdle /\ ScoreIdle /\ CalcIdle
  /\ ClickIdle /\ PoolIdle
SpecLinkAnalysis == InitLinkAnalysis /\ [][LaNext]_vars

\* one click simulation
InitClicks ==
  ClickInit /\ RouteIdle /\ LinksIdle /\ ScoreIdle /\ CalcIdle /\ LaIdle
  /\ PoolIdle
SpecClicks == InitClicks /\ [][ClickNext]_vars

\* one scoring of the unique links
InitPool ==
  PoolInit /\ RouteIdle /\ LinksIdle /\ ScoreIdle /\ CalcIdle /\ LaIdle
  /\ ClickIdle
SpecPool == InitPool /\ [][PoolNext]_vars

Scored == assessment # None /\ linkUrl # NotAString

\* C5: a status set by the probe takes precedence over the threshold rule:
\* a 404 answer gives status Broken and score <= 60, a probe exception
\* gives status Unreachable.
C5_ProbeStatusTakesPrecedence ==
  Scored =>
    /\ (probe = Answer(404) =>
          /\ assessment.value.status = "Broken"
          /\ assessment.value.score <= 60)
    /\ (probe = Threw => assessment.value.status = "Unreachable")

\* C6: a link whose URL contains a known suspicious TLD has the issue
\* "Suspicious TLD", a status that is never Safe and a score <= 70,
\* whatever the probe outcome and scheme.
C6_SuspiciousTldAtLeastWarning ==
  (Scored /\ HasSuspiciousTld(linkUrl)) =>
    /\ \E i \in 1..Len(assessment.value.issues) :
          assessment.value.issues[i] = "Suspicious TLD"
    /\ assessment.value.status # "Safe"
    /\ assessment.value.score <= 70

\* C7: an unexpected exception while scoring a link yields
\* {score 50, status Unknown, issues ["Analysis Error"]}, and
\* scoreExternalLink never rejects.
C7_ScoringNeverRejects ==
  assessment # None =>
    /\ assessment.kind = "resolved"
    /\ (linkUrl = NotAString => assessment.value = AnalysisError)

C7_Witness ==
  /\ assessment # None
  /\ linkUrl = NotAString
  /\ assessment.value.status = "Unknown"

----------------------------------------------------------------------------
(* Claims about the route *)

Sent == Len(responses) > 0
LastResponse == responses[Len(responses)]

\* C1: whenever a category result of a response carries
\* malwareDetected = true, that category's score is 0 and the overall score
\* of the response is 0, whatever the other categories' scores.
C1_ThreatForcesZero ==
  /\ \A i \in 1..Len(tasks) :
       (tasks[i].kind = "resolved" /\ tasks[i].value # Undefined
          /\ tasks[i].value.malwareDetected) => tasks[i].value.score = 0
  /\ \A r \in 1..Len(responses) :
       \A i \in 1..Len(responses[r].categories) :
          responses[r].categories[i].malwareDetected =>
            /\ responses[r].categories[i].score = 0
            /\ responses[r].overall.score = 0

C1_Witness ==
  /\ Sent
  /\ LastResponse.success
  /\ Len(LastResponse.categories) = NumCategories
  /\ LastResponse.categories[SafetyIdx].malwareDetected
  /\ \E i \in 1..NumCategories : LastResponse.categories[i].score > 50

\* C2: if any of the six category checks rejects, every other category's
\* result is still returned in the response and the failed category is
\* replaced by a synthesized error CategoryResult (score 0, one error check).
C2_IsolateAndSubstitute ==
  (Sent /\ \E i \in 1..Len(tasks) : tasks[i] = Rejected) =>
     /\ Len(LastResponse.categories) = NumCategories
     /\ \A i \in 1..NumCategories :
          /\ tasks[i] = Rejected =>
               /\ LastResponse.categories[i].score = 0
               /\ Len(LastResponse.categories[i].checks) = 1
               /\ LastResponse.categories[i].checks[1].status = "error"
          /\ (tasks[i].kind = "resolved" /\ tasks[i].value # Undefined) =>
               LastResponse.categories[i] = tasks[i].value

----------------------------------------------------------------------------
(* Claims about ExternalLinksCheck.analyze *)

Settled == lpc = "done"
Returned == Settled /\ result.kind = "resolved"
Report0 == result.value
FetchFailed == Report0.checks[1].name = "External Links Analysis Error"
NoDuplicates(seq) ==
  \A i, j \in 1..Len(seq) : seq[i] = seq[j] => i = j

\* C3: ExternalLinksCheck.analyze never lets an exception escape: for every
\* input URL and every failure of the browser launch, the navigation, the
\* static fetch or a probe it resolves to a CategoryResult, and when the
\* browser launch fails the result still holds the links of the static
\* extractor.
C3_NoExceptionEscapes ==
  Settled =>
    /\ result.kind = "resolved"
    /\ Report0.category = "External Links"
    /\ (browser = "none" /\ ~FetchFailed) =>
          Report0.externalLinks =
            Dedupe(StaticExtract(page.markup, page.url))

\* C4: every LinkAssessment of scoredLinks has a score that is null or an
\* integer of 0..100 and a status among Safe, Warning, Unsafe, Broken,
\* Unreachable, Unknown, Not Scored, whatever the URL patterns and the probe
\* outcome.
C4_AssessmentInRange ==
  Returned =>
    \A i \in 1..Len(Report0.scoredLinks) :
       /\ \/ Report0.scoredLinks[i].score = NullScore
          \/ Report0.scoredLinks[i].score \in 0..100
       /\ Report0.scoredLinks[i].status \in
            {"Safe", "Warning", "Unsafe", "Broken", "Unreachable", "Unknown",
             "Not Scored"}

\* a link that matched all four patterns, answered 404 over http: the sum of
\* the penalties exceeds 100
C4_Witness ==
  /\ Returned
  /\ \E i \in 1..Len(Report0.scoredLinks) :
        /\ Report0.scoredLinks[i].score = 0
        /\ Len(Report0.scoredLinks[i].issues) = 6
  /\ \E i \in 1..Len(Report0.scoredLinks) :
        Report0.scoredLinks[i].score = 60

\* C8: of n unique external links at most MaxScored are scored, the
\* remaining max(0, n - MaxScored) are reported with score null and status
\* Not Scored, and scoredLinks has exactly n entries.
C8_CapAndCount ==
  Returned =>
    /\ Len(Report0.scoredLinks) = Len(Report0.externalLinks)
    /\ \A i \in 1..Len(Report0.scoredLinks) :
          /\ Report0.scoredLinks[i].url = Report0.externalLinks[i]
          /\ i > MaxScored =>
               /\ Report0.scoredLinks[i].score = NullScore
               /\ Report0.scoredLinks[i].status = "Not Scored"
          /\ i <= MaxScored =>
               /\ Report0.scoredLinks[i].score # NullScore
               /\ Report0.scoredLinks[i].status # "Not Scored"

C8_Witness ==
  /\ Returned
  /\ Len(Report0.externalLinks) > MaxScored + 1
  /\ Report0.scoredLinks[MaxScored + 1].status = "Not Scored"

\* C9: the returned externalLinks never holds a link whose hostname is the
\* hostname of the seed page, whichever source produced it.
C9_NoSameHostLink ==
  Returned =>
    \A i \in 1..Len(Report0.externalLinks) :
       Parseable(Report0.externalLinks[i]) =>
         Hostname(Report0.externalLinks[i]) # Hostname(page.url)

\* C10: no URL string appears twice in externalLinks, every entry of
\* externalDomains is the hostname of an entry of externalLinks, and
\* externalDomains has no duplicates.
C10_UniqueLinksAndDomains ==
  Returned =>
    /\ NoDuplicates(Report0.externalLinks)
    /\ NoDuplicates(Report0.externalDomains)
    /\ \A d \in 1..Len(Report0.externalDomains) :
          \E i \in 1..Len(Report0.externalLinks) :
             /\ Parseable(Report0.externalLinks[i])
             /\ Hostname(Report0.externalLinks[i]) = Report0.externalDomains[d]

\* the same link came from two sources, and two links share a domain
C10_Witness ==
  /\ Returned
  /\ ~FetchFailed
  /\ Len(MergedLinks(StaticExtract(page.markup, page.url), extracted))
       > Len(Report0.externalLinks)
  /\ Len(Report0.externalDomains) < Len(Report0.externalLinks)
  /\ Len(Report0.externalDomains) > 1

\* C11: only absolute http/https targets are retained in externalLinks: a
\* reference that resolves to another scheme (tel:, ftp:, data:) is never
\* added, whichever source produced it.
C11_OnlyHttpRetained ==
  Returned =>
    \A i \in 1..Len(Report0.externalLinks) : IsHttp(Report0.externalLinks[i])

----------------------------------------------------------------------------
(* Claims about the score calculator *)

StatusValue(st) ==
  CASE st = "pass" -> 100 [] st = "info" -> 75 [] st = "warn" -> 60
    [] st \in {"fail", "error"} -> 0

\* twice the weight: critical 3, high 2, medium 1, low 0.5
Weight2(sev) ==
  CASE sev = "critical" -> 6 [] sev = "high" -> 4 [] sev = "medium" -> 2
    [] sev = "low" -> 1

InTables(checks) ==
  \A i \in 1..Len(checks) :
     /\ checks[i].status \in {"pass", "info", "warn", "fail", "error"}
     /\ checks[i].severity \in {"critical", "high", "medium", "low"}

\* r = round(num / den), halves rounded up
IsRound(r, num, den) ==
  /\ 2 * r * den <= 2 * num + den
  /\ 2 * num + den < 2 * (r + 1) * den

PassFailCritical ==
  << Check("c", "pass", "critical"), Check("c", "fail", "critical") >>

\* C12: for every non-empty list of checks calculateCategoryScore returns
\* round(sum(statusValue * weight) / sum(weight)) with pass 100, info 75,
\* warn 60, fail 0, error 0 and critical 3, high 2, medium 1, low 0.5;
\* the checks [{pass, critical}, {fail, critical}] give 50.
C12_WeightedRoundedMean ==
  (categoryScore # None /\ Len(checksIn) > 0 /\ InTables(checksIn)) =>
    /\ IsRound(categoryScore.value,
               Sum([i \in 1..Len(checksIn) |->
                      StatusValue(checksIn[i].status)
                        * Weight2(checksIn[i].severity)], 1),
               Sum([i \in 1..Len(checksIn) |->
                      Weight2(checksIn[i].severity)], 1))
    /\ checksIn = PassFailCritical => categoryScore.value = 50

C12_Witness ==
  /\ categoryScore # None
  /\ checksIn = << Check("c", "pass", "critical"), Check("c", "warn", "low") >>
  /\ categoryScore.value = 94

----------------------------------------------------------------------------
(* Claims about the scores of a response *)

\* C13: every CategoryResult placed in a response has a score that is an
\* integer of 0..100: scores from calculateCategoryScore (also for an empty
\* check list and for unknown severity or status values), scores forced to 0
\* by the threat override, and synthesized error categories.
C13_CategoryScoreInRange ==
  \A r \in 1..Len(responses) :
     \A i \in 1..Len(responses[r].categories) :
        responses[r].categories[i].score \in 0..100

C13_Witness ==
  /\ Sent
  /\ Len(LastResponse.categories) = NumCategories
  /\ LastResponse.categories[SafetyIdx].malwareDetected
  /\ \E i \in 1..NumCategories :
        /\ Len(LastResponse.categories[i].checks) = 1
        /\ LastResponse.categories[i].checks[1].name = "Error"
  /\ \E i \in 1..NumCategories : LastResponse.categories[i].checks = <<>>
  /\ \E i \in 1..NumCategories :
        /\ Len(LastResponse.categories[i].checks) = 4
        /\ LastResponse.categories[i].score \in 1..99

NoThreat(categories) ==
  \A i \in 1..Len(categories) : ~categories[i].malwareDetected

\* C14: when no category carries the threat flag, the overall score of a
\* successful analysis is round(mean of the scores of the categories listed
\* in the response), a defined integer of 0..100.
C14_OverallIsRoundedMean ==
  \A r \in 1..Len(responses) :
     (responses[r].success /\ NoThreat(responses[r].categories)) =>
        /\ Len(responses[r].categories) > 0
        /\ responses[r].overall.score \in 0..100
        /\ IsRound(responses[r].overall.score,
                   Sum([i \in 1..Len(responses[r].categories) |->
                          responses[r].categories[i].score], 1),
                   Len(responses[r].categories))

\* a mean whose fraction is at least one half: the overall score is above
\* the truncated mean
C14_Witness ==
  /\ Sent
  /\ LastResponse.success
  /\ NoThreat(LastResponse.categories)
  /\ Len(LastResponse.categories) = NumCategories
  /\ LastResponse.overall.score > FloorMean(LastResponse.categories)

----------------------------------------------------------------------------
(* More claims about ExternalLinksCheck.analyze *)

\* the page yields no outbound reference from either extractor
ZeroReferences ==
  /\ Len(StaticExtract(page.markup, page.url)) = 0
  /\ extracted.links = <<>>
  /\ extracted.redirectLinks = <<>>

\* C15: for every page that yields zero outbound references from both
\* extractors, externalLinks is empty and the 'External Links Detected'
\* check has status info, never fail and never error.
C15_ZeroLinksIsInfo ==
  (Returned /\ ZeroReferences) =>
    /\ Report0.externalLinks = <<>>
    /\ \A i \in 1..Len(Report0.checks) :
          Report0.checks[i].name = "External Links Detected" =>
            Report0.checks[i].status = "info"
    /\ net.fetch = "ok" =>
          /\ Report0.checks[1].name = "External Links Detected"
          /\ \A i \in 1..Len(Report0.checks) :
                Report0.checks[i].status \notin {"fail", "error"}

C15_Witness ==
  /\ Returned
  /\ ZeroReferences
  /\ browser = "closed"
  /\ net.fetch = "ok"
  /\ Report0.checks[1].status = "info"

\* C16: when every discovery phase fails, the engine returns an empty
\* discovery result (externalLinks, externalDomains and scoredLinks empty)
\* with an explanatory check of severity medium or low, never critical.
C16_WorstCaseIsEmptyResult ==
  (Returned /\ net.fetch = "throws") =>
    /\ Report0.externalLinks = <<>>
    /\ Report0.externalDomains = <<>>
    /\ Report0.scoredLinks = <<>>
    /\ Len(Report0.checks) = 1
    /\ Report0.checks[1].status = "error"
    /\ Report0.checks[1].severity \in {"medium", "low"}

\* the browser did not launch and the static fetch threw
C16_Witness ==
  /\ Returned
  /\ browser = "none"
  /\ extracted = NoDynamic
  /\ net.fetch = "throws"
  /\ Len(StaticExtract(page.markup, page.url)) > 0

----------------------------------------------------------------------------
(* Claims about LinkAnalysisCheck *)

LaReturned ==
  /\ laPc = "done"
  /\ laResult.kind = "resolved"
  /\ laResult.value.checks[1].name # "Link Analysis Error"

IsExternal(link, url) == Hostname(link) # Hostname(url)

\* C17: the domain-based threat classifier is evaluated on every referenced
\* URL discovered for the page, also on the links beyond the cap, not only
\* on a prefix of the link list.
C17_ClassifierSeesEveryLink ==
  LaReturned =>
    \A i \in 1..Len(LaLinks(laPage)) :
       IsExternal(LaLinks(laPage)[i], laPage.url) =>
         /\ \E d \in 1..Len(laResult.value.linkDetails) :
               laResult.value.linkDetails[d].url = LaLinks(laPage)[i]
         /\ isSuspiciousDomain(LaLinks(laPage)[i]) =>
               laResult.value.suspiciousRedirectsDetected

\* C18: whenever the link analysis reports suspiciousRedirectsDetected, the
\* score of that category is forced to 0 and so is the overall score of a
\* response that lists it.
C18_SuspiciousLinkForcesZero ==
  (LaReturned /\ laResult.value.suspiciousRedirectsDetected) =>
    /\ laResult.value.score = 0
    /\ OverallWithOverride(<< laResult.value >>) = 0

----------------------------------------------------------------------------
(* Claims about the browser of extractDynamicLinks *)

\* extractDynamicLinks has completed: analyze is at or past its static fetch
DynamicCompleted == lpc \in {"static", "done"}

DynamicRunning ==
  lpc \in {"navigating", "loaded", "extracted", "settling", "collecting",
           "closing"}

\* C19: on every exit path of extractDynamicLinks on which puppeteer.launch
\* succeeded, browser.close() has been invoked by the time the call
\* completes, and it is not invoked while the extraction still runs.
C19_BrowserClosedOnEveryExit ==
  /\ (DynamicCompleted /\ browser # "none") => closeInvoked
  /\ DynamicRunning => (browser = "open" /\ ~closeInvoked)

\* the exit through the catch block: the page has links in its DOM, yet the
\* extraction completed without any, and close was invoked
C19_Witness ==
  /\ lpc = "static"
  /\ browser # "none"
  /\ closeInvoked
  /\ DomExtract(page.dom, page.url) # <<>>
  /\ dynamicLinks = <<>>

\* C20: the static and the dynamic extractor run concurrently: while the
\* dynamic extraction is still running, the static fetch can start.
C20_StaticFetchCanStartEarly == DynamicRunning => ENABLED FetchAndScore

----------------------------------------------------------------------------
(* Claims about partial failure of the link discovery *)

\* C21: when a step of extractDynamicLinks fails after the launch, the call
\* returns everything collected before the failure: every foreign network
\* request, frame navigation, redirect Location and DOM link observed so
\* far is in the returned lists.
C21_FailureReturnsCollected ==
  (lpc = "static" /\ browser # "none") =>
    /\ Range(requestedUrls) \subseteq Range(extracted.links)
    /\ Range(dynamicLinks) \subseteq Range(extracted.links)
    /\ Range(redirectLinks) \subseteq Range(extracted.redirectLinks)

\* C22: a failure of the static page fetch does not abort the analysis: the
\* links the dynamic extraction returned are still deduplicated, scored and
\* returned in externalLinks and scoredLinks.
C22_DynamicLinksSurviveFetchFailure ==
  (Returned /\ net.fetch = "throws") =>
    /\ Range(extracted.links) \subseteq Range(Report0.externalLinks)
    /\ Range(extracted.redirectLinks) \subseteq Range(Report0.externalLinks)
    /\ NoDuplicates(Report0.externalLinks)
    /\ \A i \in 1..Len(Report0.externalLinks) :
          \E j \in 1..Len(Report0.scoredLinks) :
             Report0.scoredLinks[j].url = Report0.externalLinks[i]

----------------------------------------------------------------------------
(* Claims about the penalties of scoreExternalLink *)

HasIssue(name) ==
  \E i \in 1..Len(assessment.value.issues) : assessment.value.issues[i] = name

\* the penalty of the probe outcome as the rules list it
ProbePenalty(head) ==
  IF head.threw THEN 30
  ELSE IF head.status = 404 THEN 40
  ELSE IF head.status >= 500 THEN 20
  ELSE IF head.status >= 300 /\ head.status < 400 THEN 10
  ELSE 0

\* the sum of the penalties the rules list for a link and a probe outcome
ListedPenalty(u, head) ==
    Penalty(HasSuspiciousTld(u), 30) + Penalty(HasShortener(u), 20)
  + Penalty(HasIpLiteral(u), 25) + Penalty(HasManySubdomains(u), 15)
  + ProbePenalty(head) + Penalty(u.scheme # "https", 15)

\* a bare-IPv4 link has the issue "Direct IP Address" and a score <= 75
BareIpAtMost75 ==
  (Scored /\ HasIpLiteral(linkUrl)) =>
    /\ HasIssue("Direct IP Address")
    /\ assessment.value.score <= 75

\* C23: when no unexpected exception occurs, the score scoreExternalLink
\* returns is max(0, min(100, 100 - P)), P being the sum of the listed
\* penalties that apply (TLD 30, shortener 20, IPv4 25, more than 4 labels
\* 15, one probe penalty, non-HTTPS 15); a bare-IPv4 link has the issue
\* "Direct IP Address" and a score <= 75.
C23_ScoreIsClampedPenaltySum ==
  Scored =>
    /\ assessment.value.score =
         Max(0, Min(100, 100 - ListedPenalty(linkUrl, probe)))
    /\ HasIpLiteral(linkUrl) =>
         (HasIssue("Direct IP Address") /\ assessment.value.score <= 75)

\* C24: every link whose scheme is not HTTPS carries, whatever the probe
\* outcome, the issue "No HTTPS", the 15-point deduction and a status that
\* is at least Warning.
C24_NoHttpsAlwaysPenalised ==
  (Scored /\ linkUrl.scheme # "https") =>
    /\ HasIssue("No HTTPS")
    /\ assessment.value.score <= 85
    /\ assessment.value.status # "Safe"

----------------------------------------------------------------------------
(* Claims about the click simulation *)

\* C25: the click simulation clicks at most 50 elements per clickable
\* selector, and it clicks an element only if that element is visible.
C25_ClicksCappedAndVisible ==
  clicked # None =>
    \A s \in ClickSelectors :
       /\ Cardinality(clicked[s]) <= ClickCap
       /\ \A i \in clicked[s] : clickDom[s][i].visible

----------------------------------------------------------------------------
(* Claims about the merge and the scoring of the unique links *)

\* C26: the merge resolves every reference to its URL-parsed absolute form
\* before the set union: two references that parse to the same absolute
\* URL give one entry of externalLinks, and every entry equals its own
\* URL-parsed form.
C26_MergeKeyedByParsedForm ==
  (Returned /\ ~FetchFailed) =>
    /\ \A i \in 1..Len(Report0.externalLinks) :
          Report0.externalLinks[i] = Href(Report0.externalLinks[i])
    /\ \A i, j \in 1..Len(Report0.externalLinks) :
          Href(Report0.externalLinks[i]) = Href(Report0.externalLinks[j])
            => i = j

\* C27: the probes of the capped link list are all started before any is
\* awaited, and whatever the order in which they complete,
\* scoredLinks[i].url = externalLinks[i] for every i: each unique link has
\* one assessment, in the order of the link set, the not-scored entries
\* after the scored ones.
C27_ScoredLinksKeepOrder ==
  /\ ppc \in {"awaiting", "done"} =>
        started = 1..Min(Len(uniqueLinks), MaxScored)
  /\ finished \subseteq started
  /\ ppc = "done" =>
        /\ Len(scoredOut) = Len(uniqueLinks)
        /\ \A i \in 1..Len(uniqueLinks) :
              /\ scoredOut[i].url = uniqueLinks[i]
              /\ (scoredOut[i].status = "Not Scored") = (i > MaxScored)

\* three links scored, the probe of the last one having settled first
C27_Witness ==
  /\ ppc = "awaiting"
  /\ Len(uniqueLinks) = PoolShortLinks
  /\ finished = {PoolShortLinks}
  /\ slots[PoolShortLinks].url = uniqueLinks[PoolShortLinks]
  /\ slots[1] = None

----------------------------------------------------------------------------
(* Claims about SafetyCheck.analyze and the route *)

SafetySettled ==
  /\ tasks # <<>>
  /\ tasks[SafetyIdx].kind = "resolved"

SafetyResult == tasks[SafetyIdx].value

HasFailedMalwareCheck(checks) ==
  \E i \in 1..Len(checks) :
     /\ checks[i].name = "Malware/Phishing Indicators"
     /\ checks[i].status = "fail"

\* C28: SafetyCheck.analyze returns malwareDetected = true exactly when its
\* 'Malware/Phishing Indicators' check has status fail; when the page fetch
\* fails, or the Safe Browsing call fails and the local heuristics do not
\* match, malwareDetected is false.
C28_FlagIffMalwareCheckFails ==
  /\ SafetySettled =>
       /\ SafetyResult.malwareDetected
            = HasFailedMalwareCheck(SafetyResult.checks)
       /\ SafetyResult.checks[1].name = "Safety Analysis Error"
            => (Len(SafetyResult.checks) = 1 /\ ~SafetyResult.malwareDetected)
  /\ validatedUrl # Null =>
       \A w \in SafetyWorlds :
          (\/ w.fetch = "throws"
           \/ /\ w.gsApiKey /\ w.safeBrowsing = "throws"
              /\ ~detectPhishingIndicators(validatedUrl))
            => ~SafetyAnalyze(validatedUrl, w).malwareDetected

\* the safety check has failed on its page fetch and raised no flag
C28_Witness ==
  /\ SafetySettled
  /\ SafetyResult.checks[1].name = "Safety Analysis Error"
  /\ SafetyResult.checks[1].status = "error"
  /\ ~SafetyResult.malwareDetected

\* the url of the request body is a non-empty string that validateUrl accepts
ValidInput ==
  /\ body # NoBody
  /\ body.type = "string"
  /\ body.url # EmptyString
  /\ validateUrl(body.url) # Null

NoCheckStarted == \A i \in 1..Len(tasks) : tasks[i] = None

\* no category check is started unless the input is valid
ChecksOnlyOnValidInput ==
  ~NoCheckStarted =>
     /\ ValidInput
     /\ validatedUrl = validateUrl(body.url)
     /\ validatedUrl.scheme \in {"http", "https"}

OneResponse ==
  /\ Len(responses) <= 1
  /\ (rpc = "responded") = (Len(responses) = 1)

\* C30: every POST /analyze request receives exactly one response on every
\* path: the handler never sends two responses, never ends without sending
\* one, and sends a response only after all six category tasks have
\* settled.
C30_OneResponseAfterAllSettled ==
  /\ OneResponse
  /\ Sent => \A i \in 1..Len(tasks) : tasks[i] # Pending

====
